---- MODULE Spec2Model ----
(***************************************************************************)
(* A state-machine model of the Scale traffic simulation core:             *)
(*   - LightPolicy::apply      (scale/src/map_model/light_policy.rs)       *)
(*   - Turn::make_points       (scale/src/map_model/turn.rs)               *)
(*   - VehicleDecision::run    (scale/src/vehicles/systems.rs)             *)
(* Real numbers are fixed-point integers in hundredths (4.0 is 400).       *)
(* Angles between road directions are integers in units of 1/NDirs turn.   *)
(***************************************************************************)
EXTENDS Integers, Sequences, FiniteSets, TLC

(***************************************************************************)
(* Bounds of the model.                                                    *)
(***************************************************************************)
MaxRoads == 4
MaxLanes == 2
NDirs == 4
GridMax == 1
MaxCalls == 2
MaxTicks == 3
CruiseTicks == 11

VARIABLES
    roads,      \* the intersection's roads, in the order of inter.roads
    lanes,      \* lane id -> [kind, parent, control]
    seedOffset, \* SmallRng::seed_from_u64(inter.id).gen_range(0, cycle_size):
                \* a function of the intersection's id, fixed for the run
    lastPolicy, \* the policy of the last apply call, "none" before any
    panicked,   \* TRUE once apply has panicked (Option::unwrap on None)
    turn,       \* the Turn: [kind, points]
    turnLanes,  \* the turn's source and destination lanes' end poses
    calls,      \* the number of make_points calls so far (up to MaxCalls)
    map,        \* Map: [lanes: lane id -> [points, dst, control],
                \* intersections: intersection id -> [turns]]
    now,        \* TimeInfo: the simulated time, in hundredths of a second
    agents,     \* entity -> [trans, kin, vehicle]: its three components
    coworld,    \* CollisionWorld: entity -> PhysicsObject, as of the tick's start
    pc,         \* entity -> its place in this tick's par_join closure
    drawn,      \* RAND_STATE: the values rand_det has returned during this
                \* tick, in the order the callers took the lock
    tickStart   \* the agents as they were when this tick's par_join began

lightVars == <<roads, lanes, seedOffset, lastPolicy, panicked>>
turnVars == <<turn, turnLanes, calls>>
vehVars == <<map, now, agents, coworld, pc, drawn, tickStart>>
vars == <<lightVars, turnVars, vehVars>>

(***************************************************************************)
(* Traffic control values.                                                 *)
(***************************************************************************)
Always == [type |-> "Always"]
StopSign == [type |-> "StopSign"]

\* TrafficLightSchedule::from_basic(green, orange, cycle, offset): the
\* schedule is described by (green duration, orange duration, cycle length,
\* phase offset).
from_basic(green, orange, cycle, offset) ==
    [green |-> green, orange |-> orange, cycle |-> cycle, offset |-> offset]

Light(schedule) == [type |-> "Light", schedule |-> schedule]

\* LaneKind::needs_light
needs_light(kind) == kind = "Driving"

LaneKinds == {"Driving", "Walking"}
Policies == {"NoLights", "StopSigns", "Lights", "Smart"}

(***************************************************************************)
(* Small helpers over sequences.                                           *)
(***************************************************************************)
RECURSIVE SelectSeqBy(_, _)
\* Iterator::filter over a sequence of lane ids, keeping lanes needing a light
SelectSeqBy(s, ls) ==
    IF s = <<>> THEN <<>>
    ELSE IF needs_light(ls[Head(s)].kind)
         THEN <<Head(s)>> \o SelectSeqBy(Tail(s), ls)
         ELSE SelectSeqBy(Tail(s), ls)

RECURSIVE NonEmpty(_)
\* .filter(|v| !v.is_empty())
NonEmpty(ss) ==
    IF ss = <<>> THEN <<>>
    ELSE IF Head(ss) = <<>> THEN NonEmpty(Tail(ss))
         ELSE <<Head(ss)>> \o NonEmpty(Tail(ss))

\* in_road_lanes: for every road of the intersection, its incoming lanes
\* that need a light; roads with none are dropped.
InRoadLanes(rs, ls) ==
    NonEmpty([i \in 1..Len(rs) |-> SelectSeqBy(rs[i].incoming, ls)])

\* The lane ids of a sequence of groups
GroupLanes(groups) ==
    UNION {{groups[g][j] : j \in 1..Len(groups[g])} : g \in 1..Len(groups)}

\* |dir_a.angle(dir_b)|: the absolute signed angle between two directions,
\* in (-pi, pi], here in units of 1/NDirs turn.
AbsAngle(a, b) ==
    LET d == (b - a) % NDirs
    IN  IF d <= NDirs - d THEN d ELSE NDirs - d

\* lanes[l].control = c for every lane l of the set
SetControl(ls, ids, c) ==
    [l \in DOMAIN ls |-> IF l \in ids THEN [ls[l] EXCEPT !.control = c] ELSE ls[l]]

\* One iteration of "for i in 0..3" of the three-road case: acc is
\* [max_ang, perp_road], perp_road = -1 standing for None.
PerpStep(groups, ls, rs, i, acc) ==
    LET a == ls[groups[i + 1][1]].parent
        b == ls[groups[((i + 1) % 3) + 1][1]].parent
        ang == AbsAngle(rs[a].dir, rs[b].dir)
    IN  IF ang > acc.max_ang
        THEN [max_ang |-> ang, perp_road |-> (i + 2) % 3]
        ELSE acc

\* perp_road after the loop (0-based group index, -1 for None)
PerpRoad(groups, ls, rs) ==
    LET a0 == [max_ang |-> 0, perp_road |-> -1]
        a1 == PerpStep(groups, ls, rs, 0, a0)
        a2 == PerpStep(groups, ls, rs, 1, a1)
        a3 == PerpStep(groups, ls, rs, 2, a2)
    IN  a3.perp_road

cycle_size == 10
orange_length == 4

\* GroupLight with the same offset for every road-group
GroupLightSameOffset(i, offset) ==
    Light(from_basic(cycle_size, orange_length, cycle_size + orange_length, offset))

\* The light given to the road-group at 0-based position i
GroupLight(i, offset) ==
    Light(from_basic(cycle_size, orange_length, cycle_size + orange_length,
                     IF i % 2 = 0 THEN cycle_size + orange_length + offset
                                  ELSE offset))

RECURSIVE SetLights(_, _, _, _)
\* for (i, incoming_lanes) in in_road_lanes.into_iter().enumerate()
SetLights(ls, groups, i, offset) ==
    IF i >= Len(groups) THEN ls
    ELSE SetLights(SetControl(ls, GroupLanes(<<groups[i + 1]>>), GroupLight(i, offset)),
                   groups, i + 1, offset)

\* Arm with two_lanes_or_less computed as len < 2
ArmLessThanTwo(policy, groups) ==
    IF policy = "NoLights" \/ (policy = "Smart" /\ Len(groups) < 2) THEN "skip"
    ELSE IF policy = "StopSigns" THEN "stop"
    ELSE IF policy = "Smart" /\ Len(groups) = 3 THEN "perp"
    ELSE "lights"

\* Arm with the StopSigns arm matching (StopSigns, false) only
ArmStopSignsManyOnly(policy, groups) ==
    IF policy = "NoLights" \/ (policy \in {"Smart", "StopSigns"} /\ Len(groups) <= 2)
    THEN "skip"
    ELSE IF policy = "StopSigns" THEN "stop"
    ELSE IF policy = "Smart" /\ Len(groups) = 3 THEN "perp"
    ELSE "lights"

\* The arm of "match (self, two_lanes_or_less)" that is taken
Arm(policy, groups) ==
    IF policy = "NoLights" \/ (policy = "Smart" /\ Len(groups) <= 2) THEN "skip"
    ELSE IF policy = "StopSigns" THEN "stop"
    ELSE IF policy = "Smart" /\ Len(groups) = 3 THEN "perp"
    ELSE "lights"

\* apply without the loop that first sets every relevant lane to Always
ApplyWithoutReset(policy) ==
    LET groups == InRoadLanes(roads, lanes)
        arm == Arm(policy, groups)
    IN  /\ ~panicked
        /\ lastPolicy' = policy
        /\ UNCHANGED roads
        /\ \/ /\ arm = "skip"
              /\ lanes' = lanes
              /\ UNCHANGED <<seedOffset, panicked>>
           \/ /\ arm = "stop"
              /\ lanes' = SetControl(lanes, GroupLanes(groups), StopSign)
              /\ UNCHANGED <<seedOffset, panicked>>
           \/ /\ arm = "perp"
              /\ LET p == PerpRoad(groups, lanes, roads)
                 IN  IF p = -1
                     THEN /\ lanes' = lanes
                          /\ panicked' = TRUE
                     ELSE /\ lanes' = SetControl(lanes, GroupLanes(<<groups[p + 1]>>), StopSign)
                          /\ UNCHANGED panicked
              /\ UNCHANGED seedOffset
           \/ /\ arm = "lights"
              /\ lanes' = SetLights(lanes, groups, 0, seedOffset)
              /\ UNCHANGED <<seedOffset, panicked>>

\* LightPolicy::apply(self, inter, lanes, roads)
Apply(policy) ==
    LET groups == InRoadLanes(roads, lanes)
        cleared == SetControl(lanes, GroupLanes(groups), Always)
        arm == Arm(policy, groups)
    IN  /\ ~panicked
        /\ lastPolicy' = policy
        /\ UNCHANGED roads
        /\ \/ /\ arm = "skip"
              /\ lanes' = cleared
              /\ UNCHANGED <<seedOffset, panicked>>
           \/ /\ arm = "stop"
              /\ lanes' = SetControl(cleared, GroupLanes(groups), StopSign)
              /\ UNCHANGED <<seedOffset, panicked>>
           \/ /\ arm = "perp"
              /\ LET p == PerpRoad(groups, cleared, roads)
                 IN  IF p = -1
                     THEN /\ lanes' = cleared
                          /\ panicked' = TRUE
                     ELSE /\ lanes' = SetControl(cleared, GroupLanes(<<groups[p + 1]>>), StopSign)
                          /\ UNCHANGED panicked
              /\ UNCHANGED seedOffset
           \/ /\ arm = "lights"
              /\ lanes' = SetLights(cleared, groups, 0, seedOffset)
              /\ UNCHANGED <<seedOffset, panicked>>

(***************************************************************************)
(* The intersections the model starts from: 1..MaxRoads roads, each with a *)
(* direction.  Every road brings a walking lane into the intersection; a   *)
(* road open to vehicles also brings 1..MaxLanes driving lanes (road r     *)
(* brings 1 + (r-1) % MaxLanes of them); its remaining driving lanes leave *)
(* the intersection.  Every control is Always, as at construction.         *)
(* apply reads directions only through the angle between two of them, so   *)
(* the first road's direction is 0.  apply only copies the seeded draw     *)
(* into the schedules, so the two ends of gen_range(0, cycle_size) stand   *)
(* for its values; the draw is fixed for the run.                          *)
(***************************************************************************)
LanesPerRoad == MaxLanes + 2

LaneId(r, j) == (r - 1) * LanesPerRoad + j

\* The number of driving lanes road r brings into the intersection
DrivingIn(r, open) == IF open THEN 1 + ((r - 1) % MaxLanes) ELSE 0

LightFresh ==
    /\ \E n \in 1..MaxRoads :
         \E dirs \in [1..n -> 0..(NDirs - 1)] :
           \E open \in [1..n -> BOOLEAN] :
             /\ dirs[1] = 0
             /\ roads = [r \in 1..n |->
                           [dir |-> dirs[r],
                            incoming |-> [j \in 1..(DrivingIn(r, open[r]) + 1) |->
                                            LaneId(r, j)]]]
             /\ lanes = [l \in {LaneId(r, j) : r \in 1..n, j \in 1..LanesPerRoad} |->
                           LET r == ((l - 1) \div LanesPerRoad) + 1
                               j == ((l - 1) % LanesPerRoad) + 1
                           IN  [kind |-> IF j = 1 THEN "Walking" ELSE "Driving",
                                parent |-> r,
                                control |-> Always]]
    /\ seedOffset \in {0, cycle_size - 1}
    /\ lastPolicy = "none"
    /\ panicked = FALSE

\* The turn while the light policy is exercised: a fresh Turn::new
TurnIdle ==
    /\ turn = [kind |-> "Normal", points |-> <<>>]
    /\ turnLanes = [src |-> [pos |-> <<0, 0>>, ori |-> <<100, 0>>],
                    dst |-> [pos |-> <<0, 0>>, ori |-> <<100, 0>>]]
    /\ calls = 0

\* The world while no vehicle is simulated: an empty map and no entity
VehIdle ==
    /\ map = [lanes |-> <<>>, intersections |-> <<>>]
    /\ now = 0
    /\ agents = <<>>
    /\ coworld = <<>>
    /\ pc = <<>>
    /\ drawn = <<>>
    /\ tickStart = <<>>

NextLight == (\E policy \in Policies : Apply(policy)) /\ UNCHANGED <<turnVars, vehVars>>

InitLight == LightFresh /\ TurnIdle /\ VehIdle

SpecLight == InitLight /\ [][NextLight]_vars

(***************************************************************************)
(* Turn::make_points.  Points are pairs of hundredths.                     *)
(***************************************************************************)
TurnKinds == {"Crosswalk", "WalkingCorner", "Normal"}

\* TurnKind::is_crosswalk
is_crosswalk(kind) == kind = "Crosswalk"

\* PolyLine::clear and PolyLine::push
clear(points) == <<>>
push(points, item) == Append(points, item)

RECURSIVE SqrtBetween(_, _, _)
\* The largest r in lo..hi with r * r <= n
SqrtBetween(n, lo, hi) ==
    IF lo >= hi THEN lo
    ELSE LET mid == (lo + hi + 1) \div 2
         IN  IF mid * mid <= n THEN SqrtBetween(n, mid, hi)
                               ELSE SqrtBetween(n, lo, mid - 1)

\* f32::sqrt, rounded down to the hundredth grid's integer
Sqrt(n) == SqrtBetween(n, 0, 40000)

\* InnerSpace::magnitude of a vector of hundredths, in hundredths
magnitude(v) == Sqrt(v[1] * v[1] + v[2] * v[2])

\* Vector difference, and a vector of hundredths scaled by hundredths
Sub(a, b) == <<a[1] - b[1], a[2] - b[2]>>
Scale(v, k) == <<(v[1] * k) \div 100, (v[2] * k) \div 100>>

N_SPLINE == 6

\* Spline::get(c) at c = i / (N_SPLINE + 1): the cubic Hermite interpolation
\* from sp.from to sp.to with the end derivatives sp.from_derivative and
\* sp.to_derivative; the basis polynomials are scaled by (N_SPLINE + 1)^3.
SplineGet(sp, i) ==
    LET n == N_SPLINE + 1
        h00 == 2 * i * i * i - 3 * n * i * i + n * n * n
        h10 == i * i * i - 2 * n * i * i + n * n * i
        h01 == 3 * n * i * i - 2 * i * i * i
        h11 == i * i * i - n * i * i
        co(k) == (h00 * sp.from[k] + h10 * sp.from_derivative[k]
                  + h01 * sp.to[k] + h11 * sp.to_derivative[k]) \div (n * n * n)
    IN  <<co(1), co(2)>>

RECURSIVE PushSamples(_, _, _)
\* for i in 1..=N_SPLINE { self.points.push(spline.get(c)) }
PushSamples(points, sp, i) ==
    IF i > N_SPLINE THEN points
    ELSE PushSamples(push(points, SplineGet(sp, i)), sp, i + 1)

\* The turn's spline: from pos_src to pos_dst, the derivatives being the
\* lanes' orientation vectors scaled by half the distance
TurnSpline(tl) ==
    LET dist == magnitude(Sub(tl.dst.pos, tl.src.pos)) \div 2
    IN  [from |-> tl.src.pos,
         to |-> tl.dst.pos,
         from_derivative |-> Scale(tl.src.ori, dist),
         to_derivative |-> Scale(tl.dst.ori, dist)]

\* make_points started from the point list "start" (points.clear())
MakePointsFrom(start, kind, tl) ==
    IF is_crosswalk(kind)
    THEN push(push(start, tl.src.pos), tl.dst.pos)
    ELSE push(PushSamples(push(start, tl.src.pos), TurnSpline(tl), 1), tl.dst.pos)

\* make_points without the clear
PointsKept(t) == t.points

\* self.points.clear()
PointsCleared(t) == clear(t.points)

\* Turn::make_points(&mut self, lanes)
MakePoints ==
    /\ calls < MaxCalls
    /\ turn' = [turn EXCEPT !.points = MakePointsFrom(PointsCleared(turn), turn.kind, turnLanes)]
    /\ calls' = calls + 1
    /\ UNCHANGED turnLanes

\* Lane end positions on a grid of 4.0 units; orientations along the axes
GridPos == {<<400 * x, 400 * y>> : x \in 0..GridMax, y \in 0..GridMax}
Orientations == {<<100, 0>>, <<0, 100>>, <<-100, 0>>, <<0, -100>>}
Poses == [pos : GridPos, ori : Orientations]

\* Turn::new(id, kind): no points yet
TurnFresh ==
    /\ \E kind \in TurnKinds : turn = [kind |-> kind, points |-> <<>>]
    /\ turnLanes \in [src : Poses, dst : Poses]
    /\ calls = 0

\* The intersection while make_points is exercised
LightIdle ==
    /\ roads = <<>>
    /\ lanes = <<>>
    /\ seedOffset = 0
    /\ lastPolicy = "none"
    /\ panicked = FALSE

NextTurn == MakePoints /\ UNCHANGED <<lightVars, vehVars>>

InitTurn == TurnFresh /\ LightIdle /\ VehIdle

SpecTurn == InitTurn /\ [][NextTurn]_vars

(***************************************************************************)
(* Properties of LightPolicy::apply.                                       *)
(***************************************************************************)
\* The relevant road-groups of the intersection, in order
Groups == InRoadLanes(roads, lanes)

\* The relevant incoming lanes: incoming lanes, on any road of the
\* intersection, whose kind needs a light
RelevantLanes ==
    {l \in DOMAIN lanes :
        /\ needs_light(lanes[l].kind)
        /\ \E r \in 1..Len(roads) : \E j \in 1..Len(roads[r].incoming) :
              roads[r].incoming[j] = l}

\* Every lane of the group at 0-based position g has control c
GroupHas(g, c) == \A j \in 1..Len(Groups[g + 1]) : lanes[Groups[g + 1][j]].control = c

\* The angular difference of the cyclically adjacent pair (i, i+1 mod 3)
PairAngle(i) ==
    AbsAngle(roads[lanes[Groups[i + 1][1]].parent].dir,
             roads[lanes[Groups[((i + 1) % 3) + 1][1]].parent].dir)

\* C1: after apply under Smart on an intersection with exactly 3 relevant
\* road-groups, exactly one group has all its lanes StopSign, the other two
\* have all their lanes Always, and the demoted group is the one outside a
\* cyclically adjacent pair of largest absolute angular difference.
C1_SmartThreeDemotesOutsider ==
    (lastPolicy = "Smart" /\ Len(Groups) = 3) =>
        \E i \in 0..2 :
            /\ \A k \in 0..2 : PairAngle(k) <= PairAngle(i)
            /\ GroupHas((i + 2) % 3, StopSign)
            /\ GroupHas(i, Always)
            /\ GroupHas((i + 1) % 3, Always)

\* C2: after apply under NoLights, or under Smart with at most 2 relevant
\* road-groups, every relevant incoming lane has control Always.
C2_NoLightsAllAlways ==
    (lastPolicy = "NoLights" \/ (lastPolicy = "Smart" /\ Len(Groups) <= 2)) =>
        \A l \in RelevantLanes : lanes[l].control = Always

C2_Witness ==
    /\ lastPolicy = "Smart"
    /\ Len(Groups) = 2
    /\ Cardinality(RelevantLanes) >= 3
    /\ \A l \in RelevantLanes : lanes[l].control = Always

\* C3: after apply under StopSigns, every relevant incoming lane has control
\* StopSign, for any number of road-groups.
C3_StopSignsAllStop ==
    lastPolicy = "StopSigns" =>
        \A l \in RelevantLanes : lanes[l].control = StopSign

C3_Witness ==
    /\ lastPolicy = "StopSigns"
    /\ Len(Groups) = 1
    /\ Cardinality(RelevantLanes) = 2
    /\ \A l \in RelevantLanes : lanes[l].control = StopSign

\* The lights arm was taken by the last apply
LightsApplied ==
    lastPolicy = "Lights" \/ (lastPolicy = "Smart" /\ Len(Groups) >= 4)

\* Every lane of the group at 0-based position g has the light of schedule sch
GroupHasSchedule(g, sch) == GroupHas(g, Light(sch))

C5_PointCount ==
    calls >= 1 =>
        IF turn.kind = "Crosswalk"
        THEN turn.points = <<turnLanes.src.pos, turnLanes.dst.pos>>
        ELSE /\ Len(turn.points) = 8
             /\ turn.points[1] = turnLanes.src.pos
             /\ \A i \in 1..6 : turn.points[i + 1] = SplineGet(TurnSpline(turnLanes), i)
             /\ turn.points[8] = turnLanes.dst.pos

C5_Witness ==
    /\ calls = 2
    /\ turn.kind = "Normal"
    /\ Len(turn.points) = 8
    /\ turn.points[1] # turn.points[8]
    /\ turn.points[4] \notin {turn.points[1], turn.points[8]}

(***************************************************************************)
(* VehicleDecision: vectors, angles and the kind's constants.  Lengths,    *)
(* speeds, times and the components of unit vectors are hundredths;        *)
(* directions are turned by whole degrees.                                 *)
(***************************************************************************)
OBJECTIVE_OK_DIST == 400

\* VehicleKind::Car
width == 450
acceleration == 300
deceleration == 900
cruising_speed == 1500
min_turning_radius == 300
ang_acc == 100

\* PhysicsObject::radius of a vehicle
radius == 225

\* TimeInfo::delta, the same at every tick
DELTA == 50

\* The values rand_det::<f32>() takes, in [0, 1)
RandValues == {0, 99}

None == [kind |-> "None"]

Abs(x) == IF x < 0 THEN -x ELSE x
Min(x, y) == IF x <= y THEN x ELSE y
Max(x, y) == IF x >= y THEN x ELSE y

\* Restrict::restrict
restrict(x, min, max) == IF x < min THEN min ELSE IF x > max THEN max ELSE x

\* f32::signum
signum(x) == IF x >= 0 THEN 1 ELSE -1

\* A product or quotient of two hundredths, in hundredths
Mul(x, y) == (x * y) \div 100
Div(x, y) == (x * 100) \div y

Add(a, b) == <<a[1] + b[1], a[2] + b[2]>>
\* InnerSpace::dot and perp_dot of two vectors of hundredths
dot(a, b) == (a[1] * b[1] + a[2] * b[2]) \div 100
\* MetricSpace::distance2, in ten-thousandths
distance2(a, b) == (a[1] - b[1]) * (a[1] - b[1]) + (a[2] - b[2]) * (a[2] - b[2])
\* A vector divided by a scalar of hundredths
Unscale(v, k) == <<(v[1] * 100) \div k, (v[2] * 100) \div k>>

\* Vec2Impl::dir_dist: the unit vector and the length, None for a vector too
\* short to normalise
dir_dist(v) ==
    LET m == magnitude(v)
    IN  IF m = 0 THEN None ELSE [kind |-> "Some", dir |-> Unscale(v, m), dist |-> m]

\* f32::cos of 0..90 degrees
CosTable ==
    <<100, 100, 100, 100, 100, 100, 99, 99, 99, 99, 98, 98, 98, 97, 97, 97,
      96, 96, 95, 95, 94, 93, 93, 92, 91, 91, 90, 89, 88, 87, 87, 86, 85, 84,
      83, 82, 81, 80, 79, 78, 77, 75, 74, 73, 72, 71, 69, 68, 67, 66, 64, 63,
      62, 60, 59, 57, 56, 54, 53, 52, 50, 48, 47, 45, 44, 42, 41, 39, 37, 36,
      34, 33, 31, 29, 28, 26, 24, 22, 21, 19, 17, 16, 14, 12, 10, 9, 7, 5, 3,
      2, 0>>

\* f32::cos and f32::sin of an angle in degrees
cos(d) ==
    LET e == d % 360
    IN  IF e <= 90 THEN CosTable[e + 1]
        ELSE IF e <= 180 THEN -CosTable[180 - e + 1]
        ELSE IF e <= 270 THEN -CosTable[e - 180 + 1]
        ELSE CosTable[360 - e + 1]
sin(d) == cos(d - 90)

\* An angle in degrees brought into (-180, 180]
NormDeg(d) == LET e == d % 360 IN IF e > 180 THEN e - 360 ELSE e

RECURSIVE QuadrantAngle(_, _, _)
\* For v in the first quadrant, the greatest angle d in lo..hi whose
\* direction v is not clockwise of
QuadrantAngle(v, lo, hi) ==
    IF lo = hi THEN lo
    ELSE IF cos((lo + hi + 1) \div 2) * v[2] - sin((lo + hi + 1) \div 2) * v[1] >= 0
         THEN QuadrantAngle(v, (lo + hi + 1) \div 2, hi)
         ELSE QuadrantAngle(v, lo, (lo + hi + 1) \div 2 - 1)

\* How far v is off the direction of angle e
Off(v, e) == Abs(cos(e) * v[2] - sin(e) * v[1])

\* Of d and d + 1, the angle whose direction is nearer to v
Nearer(v, d) == IF d < 90 /\ Off(v, d + 1) < Off(v, d) THEN d + 1 ELSE d

\* The angle q of the first quadrant, mirrored into the quadrant of v
Mirrored(v, q) ==
    IF v[1] >= 0 /\ v[2] >= 0 THEN q
    ELSE IF v[1] < 0 /\ v[2] >= 0 THEN 180 - q
    ELSE IF v[1] < 0 THEN NormDeg(180 + q)
    ELSE -q

\* vec2!(1.0, 0.0).angle(v): atan2 of the vector, in whole degrees
AngleOf(v) ==
    IF v = <<0, 0>> THEN 0
    ELSE Mirrored(v, Nearer(<<Abs(v[1]), Abs(v[2])>>,
                            QuadrantAngle(<<Abs(v[1]), Abs(v[2])>>, 0, 90)))

\* a.angle(b): the signed angle from a to b, in degrees
angle(a, b) == NormDeg(AngleOf(b) - AngleOf(a))

\* Degrees as hundredths of a radian, and back (rounded towards zero)
DegToRad(d) == signum(d) * ((Abs(d) * 314) \div 180)
RadToDeg(r) == signum(r) * ((Abs(r) * 180) \div 314)

(***************************************************************************)
(* The map: lane 1 runs east into intersection 1, from where one turn goes *)
(* straight on to lane 2 and one turns left into lane 3; lanes 2 and 3 end *)
(* at intersections without turns.                                         *)
(***************************************************************************)
LanePoints(l) ==
    CASE l = 1 -> << <<0, 0>>, <<800, 0>> >>
      [] l = 2 -> << <<1200, 0>>, <<1300, 0>> >>
      [] l = 3 -> << <<1000, 200>>, <<1000, 1000>> >>

AllLanes == {1, 2, 3}

\* Lane::get_orientation_vec
get_orientation_vec(l) ==
    LET pts == LanePoints(l)
    IN  dir_dist(Sub(pts[Len(pts)], pts[1])).dir

\* The TurnIDs (parent, src, dst) of an intersection, in the order of its turns
InterTurns(i) ==
    IF i = 1 THEN << [parent |-> 1, src |-> 1, dst |-> 2],
                     [parent |-> 1, src |-> 1, dst |-> 3] >>
    ELSE <<>>

\* Turn::new and Turn::make_points for every turn of an intersection
MadeTurns(i) ==
    [k \in 1..Len(InterTurns(i)) |->
        LET id == InterTurns(i)[k]
        IN  [id |-> id,
             points |-> MakePointsFrom(<<>>, "Normal",
                 [src |-> [pos |-> LanePoints(id.src)[Len(LanePoints(id.src))],
                           ori |-> get_orientation_vec(id.src)],
                  dst |-> [pos |-> LanePoints(id.dst)[1],
                           ori |-> get_orientation_vec(id.dst)]])]]

\* Intersection::turns_from(lane): the turns of intersection i leaving lane l
turns_from(m, i, l) == SelectSeq(m.intersections[i].turns, LAMBDA t : t.id.src = l)

\* The turn of the map with a TurnID
TurnOf(m, id) ==
    LET ts == m.intersections[id.parent].turns
    IN  ts[CHOOSE k \in 1..Len(ts) : ts[k].id = id]

\* TrafficControl::get_behavior(time_seconds)
get_behavior(control, seconds) ==
    IF control.type = "Always" THEN "GREEN"
    ELSE IF control.type = "StopSign" THEN "STOP"
    ELSE LET sch == control.schedule
             r == (seconds + sch.offset) % sch.cycle
         IN  IF r < sch.green THEN "GREEN"
             ELSE IF r < sch.green + sch.orange THEN "ORANGE"
             ELSE "RED"

\* Traversable: a lane or a turn, taken forward
LaneTravers(l) == [kind |-> "Lane", id |-> l]
TurnTravers(id) == [kind |-> "Turn", id |-> id]

\* Traversable::is_valid
is_valid(t, m) ==
    IF t.kind = "Lane" THEN t.id \in DOMAIN m.lanes
    ELSE /\ t.id.parent \in DOMAIN m.intersections
         /\ \E k \in 1..Len(m.intersections[t.id.parent].turns) :
                m.intersections[t.id.parent].turns[k].id = t.id

\* Traversable::points
points(t, m) == IF t.kind = "Lane" THEN m.lanes[t.id].points ELSE TurnOf(m, t.id).points

\* Traversable::can_pass(time_seconds, lanes): a lane may be left unless its
\* control shows red; a turn always
can_pass(t, seconds, m) ==
    IF t.kind = "Lane" THEN get_behavior(m.lanes[t.id].control, seconds) # "RED"
    ELSE TRUE

(***************************************************************************)
(* Itinerary: the current Traversable and a cursor into its points.        *)
(***************************************************************************)
set_none == [travers |-> None, cursor |-> 0]
set_simple(t, m) == [travers |-> t, cursor |-> 0]
get_travers(it) == it.travers

\* The number of points of the current Traversable
NPoints(it, m) == IF it.travers = None THEN 0 ELSE Len(points(it.travers, m))

remaining_points(it, m) == NPoints(it, m) - it.cursor
has_ended(it, m) == remaining_points(it, m) = 0
get_point(it, m) ==
    IF has_ended(it, m) THEN None
    ELSE [kind |-> "Some", p |-> points(it.travers, m)[it.cursor + 1]]
advance(it, m) == IF has_ended(it, m) THEN it ELSE [it EXCEPT !.cursor = it.cursor + 1]

\* The squared distance from p to the segment from a to b
SegDist2(p, a, b) ==
    LET ab == Sub(b, a)
        len2 == ab[1] * ab[1] + ab[2] * ab[2]
        t == IF len2 = 0 THEN 0
             ELSE restrict((((p[1] - a[1]) * ab[1] + (p[2] - a[2]) * ab[2]) * 100) \div len2,
                           0, 100)
    IN  distance2(p, Add(a, Scale(ab, t)))

\* Map::closest_lane(position): None on a map without lanes
closest_lane(m, p) ==
    IF DOMAIN m.lanes = {} THEN None
    ELSE LET d(l) == SegDist2(p, m.lanes[l].points[1],
                              m.lanes[l].points[Len(m.lanes[l].points)])
             best == {l \in DOMAIN m.lanes : \A k \in DOMAIN m.lanes : d(l) <= d(k)}
         IN  [kind |-> "Some", id |-> CHOOSE l \in best : \A k \in best : l <= k]

\* Choose::choose with the drawn value x: None for an empty list
choose(list, x) ==
    IF list = <<>> THEN None
    ELSE [kind |-> "Some", v |-> list[((Len(list) * x) \div 100) + 1]]

(***************************************************************************)
(* objective_update: the itinerary refresh of one agent.  x is the value   *)
(* rand_det returns if the update draws one; drew tells whether it did.    *)
(***************************************************************************)
\* The itinerary is dropped when its Traversable is no longer on the map
Revalidated(it, m) ==
    IF get_travers(it) # None /\ ~is_valid(get_travers(it), m) THEN set_none ELSE it

\* The cursor moves on at every target point that is reached, open or not
AdvancedUnchecked(it, seconds, position, m) ==
    LET p == get_point(it, m)
    IN  IF p = None THEN it
        ELSE IF distance2(p.p, position) < OBJECTIVE_OK_DIST * OBJECTIVE_OK_DIST
             THEN advance(it, m)
             ELSE it

\* The cursor moves on at a target point that is reached and may be passed
Advanced(it, seconds, position, m) ==
    LET p == get_point(it, m)
    IN  IF p = None THEN it
        ELSE IF distance2(p.p, position) < OBJECTIVE_OK_DIST * OBJECTIVE_OK_DIST
                /\ (remaining_points(it, m) > 1 \/ can_pass(get_travers(it), seconds, m))
             THEN advance(it, m)
             ELSE it

\* A plan that takes the agent from an ended turn back to the turn's source
ReplannedOntoSource(it, position, m, x) ==
    IF has_ended(it, m) /\ get_travers(it) # None /\ get_travers(it).kind = "Turn"
    THEN [itinerary |-> set_simple(LaneTravers(get_travers(it).id.src), m), drew |-> FALSE]
    ELSE [itinerary |-> it, drew |-> FALSE]

\* A plan that leaves an agent without a Traversable as it is
ReplannedWithoutSnap(it, position, m, x) ==
    IF ~has_ended(it, m) \/ get_travers(it) = None THEN [itinerary |-> it, drew |-> FALSE]
    ELSE IF get_travers(it).kind = "Turn"
         THEN [itinerary |-> set_simple(LaneTravers(get_travers(it).id.dst), m),
               drew |-> FALSE]
    ELSE LET neighs == turns_from(m, m.lanes[get_travers(it).id].dst, get_travers(it).id)
             picked == choose(neighs, x)
         IN  [itinerary |-> IF picked = None THEN it
                            ELSE set_simple(TurnTravers(picked.v.id), m),
              drew |-> neighs # <<>>]

\* One hop is planned when the itinerary has ended
Replanned(it, position, m, x) ==
    IF ~has_ended(it, m) THEN [itinerary |-> it, drew |-> FALSE]
    ELSE IF get_travers(it) = None
         THEN LET id == closest_lane(m, position)
              IN  [itinerary |-> IF id = None THEN it
                                 ELSE set_simple(LaneTravers(id.id), m),
                   drew |-> FALSE]
    ELSE IF get_travers(it).kind = "Turn"
         THEN [itinerary |-> set_simple(LaneTravers(get_travers(it).id.dst), m),
               drew |-> FALSE]
    ELSE LET neighs == turns_from(m, m.lanes[get_travers(it).id].dst, get_travers(it).id)
             picked == choose(neighs, x)
         IN  [itinerary |-> IF picked = None THEN it
                            ELSE set_simple(TurnTravers(picked.v.id), m),
              drew |-> neighs # <<>>]

objective_update(vehicle, seconds, trans, m, x) ==
    LET r == Replanned(Advanced(Revalidated(vehicle.itinerary, m), seconds, trans.pos, m),
                       trans.pos, m, x)
    IN  [vehicle |-> [vehicle EXCEPT !.itinerary = r.itinerary], drew |-> r.drew]

(***************************************************************************)
(* calc_decision: the collision-avoidance decision of one agent against    *)
(* the objects the spatial index returned.                                 *)
(***************************************************************************)
\* Transform::direction and Transform::normal
direction(trans) == <<trans.cos, trans.sin>>
normal(trans) == <<-trans.sin, trans.cos>>

\* The cross product of two vectors, unscaled
Cross(a, b) == a[1] * b[2] - a[2] * b[1]

\* both_dist_to_inter: the distances of the two rays' origins to the point
\* where the rays meet; None for parallel rays and for rays that do not meet
both_dist_to_inter(r1, r2) ==
    LET div == Cross(r1.dir, r2.dir)
        diff == Sub(r2.from, r1.from)
        t == (Cross(diff, r2.dir) * 100) \div div
        u == (Cross(diff, r1.dir) * 100) \div div
    IN  IF div = 0 THEN None
        ELSE IF t > 0 /\ u > 0 THEN [kind |-> "Some", my_dist |-> t, his_dist |-> u]
        ELSE None

\* What one neighbour contributes to min_front_dist: a set with one distance,
\* or the empty set when the loop continues past it
FrontDist(vehicle, speed, trans, his_pos, obj) ==
    LET position == trans.pos
        towards_vec == Sub(his_pos, position)
        dist == magnitude(towards_vec)
        towards_dir == Unscale(towards_vec, dist)
        dir_dot == dot(towards_dir, direction(trans))
        tow_nor_dot == Abs(dot(towards_vec, normal(trans)))
        is_vehicle == obj.group = "Vehicles"
        on_lane == get_travers(vehicle.itinerary).kind = "Lane"
        my_ray == [from |-> Sub(position, Scale(direction(trans), width \div 2)),
                   dir |-> direction(trans)]
        his_ray == [from |-> Sub(his_pos, Scale(obj.dir, obj.radius \div 2)),
                    dir |-> obj.dir]
        inter == both_dist_to_inter(my_ray, his_ray)
    IN  IF distance2(his_pos, position) = 0 THEN {}
        ELSE IF (dir_dot > 70 /\ (~is_vehicle \/ dot(obj.dir, direction(trans)) > 0))
                /\ (~on_lane \/ tow_nor_dot < 400)
             THEN {dist - width \div 2 - obj.radius - (IF is_vehicle THEN 0 ELSE 100)}
        ELSE IF dir_dot < 0 \/ ~is_vehicle THEN {}
        ELSE IF inter = None THEN {}
        ELSE IF inter.my_dist - Min(speed, 250) < inter.his_dist - Min(obj.speed, 250)
             THEN {}
        ELSE {dist - width \div 2}

\* min_front_dist after the loop over the neighbours, starting from 50.0
MinFrontDist(vehicle, speed, trans, neighs) ==
    LET ds == {5000} \cup UNION {FrontDist(vehicle, speed, trans, n.pos, n.obj) : n \in neighs}
    IN  CHOOSE d \in ds : \A e \in ds : d <= e

\* Caps whose last one sets the speed to 6.0 instead of lowering it to 6.0
CappedSpeedRaised(vehicle, m, speed, seconds, trans, dir_to_pos, dist_to_pos, min_front_dist) ==
    LET stop_dist == Mul(Div(speed, deceleration), speed) \div 2
        t == get_travers(vehicle.itinerary)
        behavior == IF remaining_points(vehicle.itinerary, m) = 1 /\ t.kind = "Lane"
                    THEN get_behavior(m.lanes[t.id].control, seconds)
                    ELSE "GREEN"
        s1 == IF behavior \in {"RED", "ORANGE"}
                 /\ dist_to_pos < Mul(OBJECTIVE_OK_DIST, 105) + stop_dist
                                   + Max(width \div 2 - OBJECTIVE_OK_DIST, 0)
              THEN 0
              ELSE IF behavior = "STOP"
                      /\ dist_to_pos < Mul(OBJECTIVE_OK_DIST, 95) + stop_dist
              THEN 0
              ELSE cruising_speed
        s3 == IF min_front_dist < 50 + stop_dist THEN 0 ELSE s1
    IN  IF dot(dir_to_pos, direction(trans)) < 80 THEN 600 ELSE s3

\* The speed the agent wants once the caps of lines 265-304 are applied
CappedSpeed(vehicle, m, speed, seconds, trans, dir_to_pos, dist_to_pos, min_front_dist) ==
    LET is_terminal == FALSE
        stop_dist == Mul(Div(speed, deceleration), speed) \div 2
        t == get_travers(vehicle.itinerary)
        behavior == IF remaining_points(vehicle.itinerary, m) = 1 /\ t.kind = "Lane"
                    THEN get_behavior(m.lanes[t.id].control, seconds)
                    ELSE "GREEN"
        s1 == IF behavior \in {"RED", "ORANGE"}
                 /\ dist_to_pos < Mul(OBJECTIVE_OK_DIST, 105) + stop_dist
                                   + Max(width \div 2 - OBJECTIVE_OK_DIST, 0)
              THEN 0
              ELSE IF behavior = "STOP"
                      /\ dist_to_pos < Mul(OBJECTIVE_OK_DIST, 95) + stop_dist
              THEN 0
              ELSE cruising_speed
        s2 == IF is_terminal /\ dist_to_pos < 100 + stop_dist THEN 0 ELSE s1
        s3 == IF min_front_dist < 50 + stop_dist THEN 0 ELSE s2
    IN  IF dot(dir_to_pos, direction(trans)) < 80 THEN Min(s3, 600) ELSE s3

calc_decision(vehicle, m, speed, seconds, trans, neighs, x) ==
    LET objective == get_point(vehicle.itinerary, m)
        dd == dir_dist(Sub(objective.p, trans.pos))
        min_front_dist == MinFrontDist(vehicle, speed, trans, neighs)
    IN  IF vehicle.wait_time > 0
        THEN [vehicle |-> [vehicle EXCEPT !.wait_time = vehicle.wait_time - DELTA],
              drew |-> FALSE]
        ELSE IF objective = None THEN [vehicle |-> vehicle, drew |-> FALSE]
        ELSE IF dd = None THEN [vehicle |-> vehicle, drew |-> FALSE]
        ELSE IF Abs(speed) < 20 /\ min_front_dist < 150
             THEN [vehicle |-> [vehicle EXCEPT !.wait_time = Mul(x, 50)], drew |-> TRUE]
        ELSE [vehicle |-> [vehicle EXCEPT
                  !.desired_dir = dd.dir,
                  !.desired_speed = CappedSpeed(vehicle, m, speed, seconds, trans,
                                                dd.dir, dd.dist, min_front_dist)],
              drew |-> FALSE]

(***************************************************************************)
(* vehicle_physics: the slip guard, the neighbour query, the decision and  *)
(* the integration of speed and heading of one agent.                      *)
(***************************************************************************)
\* CollisionWorld::query_around: the objects within a radius of a position
query_around(cow, pos, rad) ==
    {[pos |-> cow[k].pos, obj |-> cow[k]] : k \in {j \in DOMAIN cow : distance2(cow[j].pos, pos) <= rad * rad}}

\* The signed speed of line 60
SignedSpeed(trans, kin) ==
    magnitude(kin.velocity) * signum(dot(kin.velocity, direction(trans)))

\* The slip guard of lines 62-69 holds the agent back
Slipping(trans, kin) ==
    LET speed == SignedSpeed(trans, kin)
    IN  speed > 100 /\ Abs(dot(Unscale(kin.velocity, speed), direction(trans))) < 90

\* Lines 93-107: the heading turns by delta_ang, as fast as the agent may
Steered(trans, kin, d, speed, delta_ang, ang) ==
    LET max_ang_vel == restrict(Div(Abs(speed), min_turning_radius), 0, 200)
        ang_velocity == Min(Min(d.vehicle.ang_velocity + Mul(DELTA, ang_acc),
                                3 * DegToRad(Abs(delta_ang))),
                            max_ang_vel)
        step == RadToDeg(Mul(ang_velocity, DELTA))
        ang2 == ang + restrict(delta_ang, -step, step)
    IN  [agent |-> [trans |-> [trans EXCEPT !.cos = cos(ang2), !.sin = sin(ang2)],
                    kin |-> [kin EXCEPT !.velocity = Scale(<<cos(ang2), sin(ang2)>>, speed)],
                    vehicle |-> [d.vehicle EXCEPT !.ang_velocity = ang_velocity]],
         drew |-> d.drew]

\* An integration that reaches the desired speed within the tick
IntegratedAtOnce(trans, kin, d, speed) ==
    Steered(trans, kin, d, d.vehicle.desired_speed,
            angle(direction(trans), d.vehicle.desired_dir),
            AngleOf(direction(trans)))

\* Lines 82-107 once the decision d is taken
Integrated(trans, kin, d, speed) ==
    Steered(trans, kin, d,
            speed + restrict(d.vehicle.desired_speed - speed,
                             -Mul(DELTA, deceleration), Mul(DELTA, acceleration)),
            angle(direction(trans), d.vehicle.desired_dir),
            AngleOf(direction(trans)))

\* Lines 71-107 at the signed speed of line 60
Driven(cow, m, seconds, trans, kin, vehicle, speed, x) ==
    Integrated(trans, kin,
               calc_decision(vehicle, m, speed, seconds, trans,
                   query_around(cow, trans.pos,
                       1200 + Min(Div(Mul(speed, speed), 2 * deceleration), 4000)),
                   x),
               speed)

vehicle_physics(cow, m, seconds, trans, kin, vehicle, x) ==
    IF Slipping(trans, kin)
    THEN [agent |-> [trans |-> trans,
                     kin |-> [kin EXCEPT !.acceleration =
                                 Sub(kin.acceleration,
                                     Unscale(kin.velocity,
                                             Div(restrict(SignedSpeed(trans, kin), 100, 900), 900)))],
                     vehicle |-> vehicle],
          drew |-> FALSE]
    ELSE Driven(cow, m, seconds, trans, kin, vehicle, SignedSpeed(trans, kin), x)

(***************************************************************************)
(* VehicleDecision::run: one tick.  par_join hands every entity to a       *)
(* worker, which runs objective_update and then vehicle_physics on it; the *)
(* workers interleave, and rand_det serialises its callers on RAND_STATE.  *)
(***************************************************************************)
Entities == DOMAIN agents

time_seconds == now \div 100

\* specs::Join of the three storages: one closure call for entity a, first half
ObjectiveUpdate(a) ==
    /\ pc[a] = "objective"
    /\ \E x \in RandValues :
          LET r == objective_update(agents[a].vehicle, time_seconds, agents[a].trans, map, x)
          IN  /\ agents' = [agents EXCEPT ![a].vehicle = r.vehicle]
              /\ drawn' = IF r.drew THEN Append(drawn, x) ELSE drawn
    /\ pc' = [pc EXCEPT ![a] = "physics"]
    /\ UNCHANGED <<map, now, coworld, tickStart, lightVars, turnVars>>

\* The second half of the closure call for entity a
VehiclePhysics(a) ==
    /\ pc[a] = "physics"
    /\ \E x \in RandValues :
          LET r == vehicle_physics(coworld, map, time_seconds, agents[a].trans,
                                   agents[a].kin, agents[a].vehicle, x)
          IN  /\ agents' = [agents EXCEPT ![a] = r.agent]
              /\ drawn' = IF r.drew THEN Append(drawn, x) ELSE drawn
    /\ pc' = [pc EXCEPT ![a] = "done"]
    /\ UNCHANGED <<map, now, coworld, tickStart, lightVars, turnVars>>

\* The PhysicsObject the spatial index holds for an agent
PhysicsObjectOf(ag) ==
    [pos |-> ag.trans.pos, dir |-> direction(ag.trans),
     speed |-> magnitude(ag.kin.velocity), radius |-> radius, group |-> "Vehicles"]

\* KinematicsApply on one agent
Moved(ag) ==
    LET velocity == Add(ag.kin.velocity, Scale(ag.kin.acceleration, DELTA))
    IN  [ag EXCEPT !.kin = [velocity |-> velocity, acceleration |-> <<0, 0>>],
                   !.trans.pos = Add(ag.trans.pos, Scale(velocity, DELTA))]

\* The rest of the frame once every worker is done: the velocities move the
\* agents, the spatial index is brought up to date and the clock advances;
\* the run ends after a number of ticks
Frame(ticks) ==
    /\ \A a \in Entities : pc[a] = "done"
    /\ now < ticks * DELTA
    /\ agents' = [a \in Entities |-> Moved(agents[a])]
    /\ coworld' = [a \in Entities |-> PhysicsObjectOf(agents'[a])]
    /\ now' = now + DELTA
    /\ pc' = [a \in Entities |-> "objective"]
    /\ drawn' = <<>>
    /\ tickStart' = agents'
    /\ UNCHANGED <<map, lightVars, turnVars>>

EndTick == Frame(MaxTicks)

\* A car on the x axis, facing east (1) or west (-1)
MakeVehicle(x, facing, speed, desired_speed, wait_time, itinerary) ==
    [trans |-> [pos |-> <<x, 0>>, cos |-> facing * 100, sin |-> 0],
     kin |-> [velocity |-> <<facing * speed, 0>>, acceleration |-> <<0, 0>>],
     vehicle |-> [itinerary |-> itinerary, desired_speed |-> desired_speed,
                  desired_dir |-> <<facing * 100, 0>>, ang_velocity |-> 0,
                  wait_time |-> wait_time]]

\* The controls lane 1 is given: open, a stop sign, or a light that is red
\* during the first second and green during the next
Controls == {Always, StopSign, Light(from_basic(1, 1, 3, 2))}

\* The itineraries an agent starts with: none, the last point of lane 1, or
\* the last point of the turn from lane 1 to lane 2
OnTurn == [travers |-> TurnTravers(InterTurns(1)[1]), cursor |-> N_SPLINE + 1]
StartItineraries == {set_none, [travers |-> LaneTravers(1), cursor |-> 1], OnTurn}

Speeds == {0, cruising_speed}

\* Two cars near the end of lane 1: the first faces east at any speed, with
\* any desired speed left by its last decision and with or without a cooldown;
\* the second stands in front of it, facing east or west
VehFresh ==
    /\ \E c \in Controls :
          map = [lanes |-> [l \in AllLanes |->
                    [points |-> LanePoints(l), dst |-> l,
                     control |-> IF l = 1 THEN c ELSE Always]],
                 intersections |-> [i \in AllLanes |-> [turns |-> MadeTurns(i)]]]
    /\ now = 0
    /\ \E s1 \in Speeds, d1 \in Speeds, w1 \in {0, 30},
          i1 \in StartItineraries \ {OnTurn},
          x2 \in {600, 980}, f2 \in {1, -1}, i2 \in StartItineraries \ {set_none} :
          agents = <<MakeVehicle(500, 1, s1, d1, w1, i1), MakeVehicle(x2, f2, 0, 0, 0, i2)>>
    /\ coworld = [a \in Entities |-> PhysicsObjectOf(agents[a])]
    /\ pc = [a \in Entities |-> "objective"]
    /\ drawn = <<>>
    /\ tickStart = agents

NextTick ==
    \/ \E a \in Entities : ObjectiveUpdate(a)
    \/ \E a \in Entities : VehiclePhysics(a)
    \/ EndTick

InitTick == LightIdle /\ TurnIdle /\ VehFresh

SpecTick == InitTick /\ [][NextTick]_vars

(***************************************************************************)
(* Properties of one decision tick.                                        *)
(***************************************************************************)
\* The value the generator hands out next, from the values of this tick
NextDraw(stream) == IF stream = <<>> THEN 0 ELSE Head(stream)

\* The closure's second half on an agent whose objective_update returned o
AfterObjective(ag, o, stream) ==
    LET p == vehicle_physics(coworld, map, time_seconds, ag.trans, ag.kin, o.vehicle,
                             NextDraw(stream))
    IN  [agent |-> p.agent,
         stream |-> IF p.drew /\ stream # <<>> THEN Tail(stream) ELSE stream]

\* The closure of lines 43-44 run on one agent with the values of stream
ClosureRun(ag, stream) ==
    LET o == objective_update(ag.vehicle, time_seconds, ag.trans, map, NextDraw(stream))
    IN  AfterObjective(ag, o, IF o.drew /\ stream # <<>> THEN Tail(stream) ELSE stream)

RECURSIVE EntityOrderRun(_, _, _)
\* The run goes on behind agent a, whose closure returned r
EntityOrderNext(ags, a, r) ==
    EntityOrderRun([ags EXCEPT ![a] = r.agent], a + 1, r.stream)

\* The agents after a tick whose closures run one after the other in the
\* order of the entities, from entity a on, drawing the values of stream
EntityOrderRun(ags, a, stream) ==
    IF a > Len(ags) THEN ags
    ELSE EntityOrderNext(ags, a, ClosureRun(ags[a], stream))

Done == \A a \in Entities : pc[a] = "done"

\* C6: when a tick is over, every agent's wait_time and Traversable are those
\* of the run that takes the agents in entity order with the same generator
C6_InterleavingIndependent ==
    Done =>
        \A a \in Entities :
            /\ agents[a].vehicle.wait_time =
                   EntityOrderRun(tickStart, 1, drawn)[a].vehicle.wait_time
            /\ get_travers(agents[a].vehicle.itinerary) =
                   get_travers(EntityOrderRun(tickStart, 1, drawn)[a].vehicle.itinerary)

\* An agent is stopped: |speed| < 0.2
Stopped(ag) == Abs(SignedSpeed(ag.trans, ag.kin)) < 20

\* The distance from the front of a to the hull of b
Gap(ag, other) == magnitude(Sub(other.trans.pos, ag.trans.pos)) - width \div 2 - radius

\* other lies straight ahead of ag
Ahead(ag, other) ==
    /\ dot(Sub(other.trans.pos, ag.trans.pos), direction(ag.trans)) > 0
    /\ dot(Sub(other.trans.pos, ag.trans.pos), normal(ag.trans)) = 0

\* Two agents face each other head-on
HeadOn(ag, other) ==
    /\ direction(ag.trans) = Sub(<<0, 0>>, direction(other.trans))
    /\ Ahead(ag, other)
    /\ Ahead(other, ag)

\* C7: when a tick began with the two agents stopped, head-on, within 1.5
\* units and out of cooldown, the tick leaves both of them in a cooldown
\* with 0 < wait_time <= 0.5
C7_HeadOnBothCoolDown ==
    (/\ Done
     /\ \A a \in Entities : Stopped(tickStart[a]) /\ tickStart[a].vehicle.wait_time <= 0
     /\ HeadOn(tickStart[1], tickStart[2])
     /\ Gap(tickStart[1], tickStart[2]) < 150)
    => \A a \in Entities :
          0 < agents[a].vehicle.wait_time /\ agents[a].vehicle.wait_time <= 50

\* A trailing agent with a target has a stopped leader of the same heading
\* straight ahead, at a gap of 0.3
Following(ag, leader) ==
    /\ get_point(ag.vehicle.itinerary, map) # None
    /\ Ahead(ag, leader)
    /\ direction(leader.trans) = direction(ag.trans)
    /\ leader.kin.velocity = <<0, 0>>
    /\ Gap(ag, leader) = 30

\* C8: when a tick began with agent 1 trailing a stopped agent 2 at a gap of
\* 0.3, agent 1's desired_speed is 0 when the tick is over
C8_FollowerStops ==
    (Done /\ Following(tickStart[1], tickStart[2])) => agents[1].vehicle.desired_speed = 0

\* C9: a step changes the itinerary of an agent that has a target on a valid
\* Traversable only if the agent is within OBJECTIVE_OK_DIST of the target
\* and either more than one point remains or can_pass holds at the current
\* time; an agent at the last point of a lane that may not be passed keeps
\* its itinerary
C9_AdvanceOnlyWhenAllowed ==
    [][\A a \in Entities :
          (/\ get_travers(agents[a].vehicle.itinerary) # None
           /\ is_valid(get_travers(agents[a].vehicle.itinerary), map)
           /\ ~has_ended(agents[a].vehicle.itinerary, map)
           /\ agents'[a].vehicle.itinerary # agents[a].vehicle.itinerary)
          => /\ distance2(get_point(agents[a].vehicle.itinerary, map).p, agents[a].trans.pos)
                    < OBJECTIVE_OK_DIST * OBJECTIVE_OK_DIST
             /\ \/ remaining_points(agents[a].vehicle.itinerary, map) > 1
                \/ can_pass(get_travers(agents[a].vehicle.itinerary), time_seconds, map)
             /\ pc[a] = "objective"]_vars

\* An agent whose objective_update has run this tick waits within reach of
\* the last point of a lane whose light is red
C9_Witness ==
    \E a \in Entities :
        /\ pc[a] # "objective"
        /\ get_travers(agents[a].vehicle.itinerary) = LaneTravers(1)
        /\ remaining_points(agents[a].vehicle.itinerary, map) = 1
        /\ distance2(get_point(agents[a].vehicle.itinerary, map).p, agents[a].trans.pos)
               < OBJECTIVE_OK_DIST * OBJECTIVE_OK_DIST
        /\ ~can_pass(get_travers(agents[a].vehicle.itinerary), time_seconds, map)
        /\ tickStart[a].vehicle.itinerary = agents[a].vehicle.itinerary

\* The Traversable t2 is one hop behind t1 in the road graph
Connected(t1, t2, m) ==
    IF t1.kind = "Turn" THEN t2 = LaneTravers(t1.id.dst)
    ELSE /\ t2.kind = "Turn"
         /\ \E k \in 1..Len(turns_from(m, m.lanes[t1.id].dst, t1.id)) :
                turns_from(m, m.lanes[t1.id].dst, t1.id)[k].id = t2.id

\* The itinerary of agent a once this call of objective_update has advanced it
AdvancedOf(a) ==
    Advanced(agents[a].vehicle.itinerary, time_seconds, agents[a].trans.pos, map)

\* C10: a step that changes the Traversable of an agent on a valid one
\* installs, at its first point, the lane a turn leads to or a turn that
\* leaves the lane at its destination intersection; objective_update does so
\* whenever the itinerary has ended and such a hop exists, and leaves an ended
\* lane without departing turns as it is
C10_ReplansOneHop ==
    [][\A a \in Entities :
          (/\ get_travers(agents[a].vehicle.itinerary) # None
           /\ is_valid(get_travers(agents[a].vehicle.itinerary), map))
          => /\ get_travers(agents'[a].vehicle.itinerary)
                   # get_travers(agents[a].vehicle.itinerary)
                => /\ Connected(get_travers(agents[a].vehicle.itinerary),
                                 get_travers(agents'[a].vehicle.itinerary), map)
                   /\ agents'[a].vehicle.itinerary.cursor = 0
                   /\ has_ended(AdvancedOf(a), map)
             /\ (pc[a] = "objective" /\ pc'[a] = "physics" /\ has_ended(AdvancedOf(a), map))
                => IF get_travers(agents[a].vehicle.itinerary).kind = "Lane"
                      /\ turns_from(map, map.lanes[get_travers(agents[a].vehicle.itinerary).id].dst,
                                    get_travers(agents[a].vehicle.itinerary).id) = <<>>
                   THEN agents'[a].vehicle.itinerary = AdvancedOf(a)
                   ELSE get_travers(agents'[a].vehicle.itinerary)
                           # get_travers(agents[a].vehicle.itinerary)]_vars

\* An agent that began the run on the turn to lane 2 has been moved on to
\* lane 2, has reached its end, where no turn departs, and stays there
C10_Witness ==
    \E a \in Entities :
        /\ pc[a] # "objective"
        /\ get_travers(agents[a].vehicle.itinerary) = LaneTravers(2)
        /\ has_ended(agents[a].vehicle.itinerary, map)
        /\ has_ended(tickStart[a].vehicle.itinerary, map)

(***************************************************************************)
(* The tick on a map that is edited between two ticks: a lane is removed,  *)
(* and with it the turns that start or end on it.                          *)
(***************************************************************************)
\* Map::remove_lane, while no worker of the decision pass runs
RemoveLane(l) ==
    /\ l \in DOMAIN map.lanes
    /\ \A a \in Entities : pc[a] = "objective"
    /\ map' = [lanes |-> [k \in DOMAIN map.lanes \ {l} |-> map.lanes[k]],
               intersections |->
                   [i \in DOMAIN map.intersections |->
                       [turns |-> SelectSeq(map.intersections[i].turns,
                                            LAMBDA t : t.id.src # l /\ t.id.dst # l)]]]
    /\ UNCHANGED <<now, agents, coworld, pc, drawn, tickStart, lightVars, turnVars>>

\* Two stopped cars near the end of lane 1, which is open: the first with or
\* without an itinerary, the second on lane 1 or on the turn to lane 2
EditFresh ==
    /\ map = [lanes |-> [l \in AllLanes |->
                  [points |-> LanePoints(l), dst |-> l, control |-> Always]],
              intersections |-> [i \in AllLanes |-> [turns |-> MadeTurns(i)]]]
    /\ now = 0
    /\ \E i1 \in StartItineraries \ {OnTurn}, i2 \in StartItineraries \ {set_none} :
          agents = <<MakeVehicle(500, 1, 0, 0, 0, i1), MakeVehicle(980, 1, 0, 0, 0, i2)>>
    /\ coworld = [a \in Entities |-> PhysicsObjectOf(agents[a])]
    /\ pc = [a \in Entities |-> "objective"]
    /\ drawn = <<>>
    /\ tickStart = agents

NextEdit ==
    \/ \E a \in Entities : ObjectiveUpdate(a)
    \/ \E a \in Entities : VehiclePhysics(a)
    \/ EndTick
    \/ \E l \in AllLanes : RemoveLane(l)

InitEdit == LightIdle /\ TurnIdle /\ EditFresh

SpecEdit == InitEdit /\ [][NextEdit]_vars

\* The Traversable of an itinerary is no longer on the map
Stale(it) == get_travers(it) # None /\ ~is_valid(get_travers(it), map)

\* C11: the objective_update of an agent whose Traversable is no longer on
\* the map leaves the agent at the first point of the lane closest to it,
\* a lane of the map, or without itinerary when the map has no lane, and
\* draws no random number
C11_StaleItineraryReplaced ==
    [][\A a \in Entities :
          (pc[a] = "objective" /\ pc'[a] = "physics" /\ Stale(agents[a].vehicle.itinerary))
          => /\ drawn' = drawn
             /\ IF DOMAIN map.lanes = {}
                THEN agents'[a].vehicle.itinerary = set_none
                ELSE /\ agents'[a].vehicle.itinerary.cursor = 0
                     /\ get_travers(agents'[a].vehicle.itinerary).kind = "Lane"
                     /\ get_travers(agents'[a].vehicle.itinerary).id \in DOMAIN map.lanes
                     /\ \A k \in DOMAIN map.lanes :
                           SegDist2(agents[a].trans.pos,
                                    LanePoints(get_travers(agents'[a].vehicle.itinerary).id)[1],
                                    LanePoints(get_travers(agents'[a].vehicle.itinerary).id)[2])
                           <= SegDist2(agents[a].trans.pos, LanePoints(k)[1], LanePoints(k)[2])]_vars

\* An agent that began the tick on a lane removed since has been put on a
\* lane that is left on the map
C11_Witness ==
    \E a \in Entities :
        /\ pc[a] # "objective"
        /\ Stale(tickStart[a].vehicle.itinerary)
        /\ get_travers(tickStart[a].vehicle.itinerary).kind = "Lane"
        /\ get_travers(agents[a].vehicle.itinerary).kind = "Lane"
        /\ get_travers(agents[a].vehicle.itinerary).id \in DOMAIN map.lanes

(***************************************************************************)
(* Properties of calc_decision.                                            *)
(***************************************************************************)
\* The objects vehicle_physics hands to calc_decision for an agent
NeighboursOf(ag) ==
    query_around(coworld, ag.trans.pos,
                 1200 + Min(Div(Mul(SignedSpeed(ag.trans, ag.kin), SignedSpeed(ag.trans, ag.kin)),
                                2 * deceleration), 4000))

\* min_front_dist of an agent against the spatial index
FrontOf(ag) == MinFrontDist(ag.vehicle, SignedSpeed(ag.trans, ag.kin), ag.trans, NeighboursOf(ag))

\* calc_decision runs to its end for an agent: no slip, no cooldown, a target
\* away from the agent and no deadlock-breaking
RunsToEnd(ag) ==
    /\ ~Slipping(ag.trans, ag.kin)
    /\ ag.vehicle.wait_time <= 0
    /\ get_point(ag.vehicle.itinerary, map) # None
    /\ dir_dist(Sub(get_point(ag.vehicle.itinerary, map).p, ag.trans.pos)) # None
    /\ ~(Abs(SignedSpeed(ag.trans, ag.kin)) < 20 /\ FrontOf(ag) < 150)

\* The braking distance of lines 190-191
StopDist(ag) ==
    Mul(Div(SignedSpeed(ag.trans, ag.kin), deceleration), SignedSpeed(ag.trans, ag.kin)) \div 2

\* The distance and the direction to the target
DistToPos(ag) == dir_dist(Sub(get_point(ag.vehicle.itinerary, map).p, ag.trans.pos)).dist
DirToPos(ag) == dir_dist(Sub(get_point(ag.vehicle.itinerary, map).p, ag.trans.pos)).dir

\* The behaviour of the control at the last point of the agent's lane
BehaviorAt(ag) ==
    IF remaining_points(ag.vehicle.itinerary, map) = 1
       /\ get_travers(ag.vehicle.itinerary).kind = "Lane"
    THEN get_behavior(map.lanes[get_travers(ag.vehicle.itinerary).id].control, time_seconds)
    ELSE "GREEN"

\* One of the caps that stop the agent applies
StopCap(ag) ==
    \/ /\ BehaviorAt(ag) \in {"RED", "ORANGE"}
       /\ DistToPos(ag) < Mul(OBJECTIVE_OK_DIST, 105) + StopDist(ag)
                           + Max(width \div 2 - OBJECTIVE_OK_DIST, 0)
    \/ BehaviorAt(ag) = "STOP" /\ DistToPos(ag) < Mul(OBJECTIVE_OK_DIST, 95) + StopDist(ag)
    \/ FrontOf(ag) < 50 + StopDist(ag)

\* C12: a calc_decision that runs to its end leaves a desired_speed between
\* 0 and the cruising speed, 0 whenever a stopping cap applies and at most
\* 6.0 whenever the agent does not face its target
C12_CapsOnlyLower ==
    [][\A a \in Entities :
          (pc[a] = "physics" /\ pc'[a] = "done" /\ RunsToEnd(agents[a]))
          => /\ agents'[a].vehicle.desired_speed <= cruising_speed
             /\ agents'[a].vehicle.desired_speed >= 0
             /\ StopCap(agents[a]) => agents'[a].vehicle.desired_speed = 0
             /\ dot(DirToPos(agents[a]), direction(agents[a].trans)) < 80
                => agents'[a].vehicle.desired_speed <= 600
             /\ (~StopCap(agents[a])
                 /\ dot(DirToPos(agents[a]), direction(agents[a].trans)) >= 80)
                => agents'[a].vehicle.desired_speed = cruising_speed]_vars

\* An agent that does not face its target and stands within stopping reach
\* of a red light has run calc_decision to its end and wants to stand
C12_Witness ==
    \E a \in Entities :
        /\ pc[a] = "done"
        /\ now = 0
        /\ tickStart[a].vehicle.wait_time = 0
        /\ tickStart[a].vehicle.itinerary = agents[a].vehicle.itinerary
        /\ BehaviorAt(tickStart[a]) = "RED"
        /\ dot(DirToPos(tickStart[a]), direction(tickStart[a].trans)) < 80
        /\ agents[a].vehicle.desired_dir = DirToPos(tickStart[a])
        /\ agents[a].vehicle.desired_speed = 0

(***************************************************************************)
(* Properties of LightPolicy::apply over several calls.                    *)
(***************************************************************************)
\* C13: no call of apply panics, and every relevant lane has a control
C13_ApplyNeverPanics ==
    /\ ~panicked
    /\ \A l \in RelevantLanes : lanes[l].control.type \in {"Always", "StopSign", "Light"}

(***************************************************************************)
(* The tick of a single car on a long straight lane, from standstill.      *)
(***************************************************************************)
EndCruiseTick == Frame(CruiseTicks)

\* The controls at the lane's exit: open, or a light that stays green
CruiseControls == {Always, Light(from_basic(cycle_size, orange_length, cycle_size + orange_length, 0))}

\* One car standing on the first metres of a lane of 80 units that runs east,
\* with the lane as its itinerary and no cooldown
CruiseFresh ==
    /\ \E c \in CruiseControls :
          map = [lanes |-> << [points |-> << <<0, 0>>, <<8000, 0>> >>, dst |-> 1,
                              control |-> c] >>,
                 intersections |-> << [turns |-> <<>>] >>]
    /\ now = 0
    /\ \E x \in {0, 100, 200, 300}, d \in Speeds, k \in {0, 1} :
          agents = <<MakeVehicle(x, 1, 0, d, 0, [travers |-> LaneTravers(1), cursor |-> k])>>
    /\ coworld = [a \in Entities |-> PhysicsObjectOf(agents[a])]
    /\ pc = [a \in Entities |-> "objective"]
    /\ drawn = <<>>
    /\ tickStart = agents

NextCruise ==
    \/ \E a \in Entities : ObjectiveUpdate(a)
    \/ \E a \in Entities : VehiclePhysics(a)
    \/ EndCruiseTick

InitCruise == LightIdle /\ TurnIdle /\ CruiseFresh

SpecCruise == InitCruise /\ [][NextCruise]_vars

\* The signed speed of the car
CruiseSpeed == SignedSpeed(agents[1].trans, agents[1].kin)

\* ceil(cruising_speed / (acceleration x delta))
RampTicks == (cruising_speed + Mul(DELTA, acceleration) - 1) \div Mul(DELTA, acceleration)

\* C14: the car's speed never exceeds the cruising speed and is the cruising
\* speed once RampTicks ticks are over; a step raises the speed by at most
\* acceleration x delta, never lowers it and leaves the facing direction as
\* it is
C14_RampToCruising ==
    /\ [](CruiseSpeed <= cruising_speed)
    /\ []((now >= RampTicks * DELTA \/ (now = (RampTicks - 1) * DELTA /\ pc[1] = "done"))
           => CruiseSpeed = cruising_speed)
    /\ [][/\ SignedSpeed(agents'[1].trans, agents'[1].kin)
                <= CruiseSpeed + Mul(DELTA, acceleration)
           /\ SignedSpeed(agents'[1].trans, agents'[1].kin) >= CruiseSpeed
           /\ direction(agents'[1].trans) = direction(agents[1].trans)]_vars

\* The car has reached the cruising speed in the last tick of the ramp and
\* not before
C14_Witness ==
    /\ now = (RampTicks - 1) * DELTA
    /\ pc[1] = "done"
    /\ SignedSpeed(tickStart[1].trans, tickStart[1].kin) < cruising_speed
    /\ CruiseSpeed = cruising_speed

(***************************************************************************)
(* Properties of the cooldown.                                             *)
(***************************************************************************)
\* The vehicle_physics of agent a runs in this step, past the slip guard
DecisionStep(a) == pc[a] = "physics" /\ pc'[a] = "done" /\ ~Slipping(agents[a].trans, agents[a].kin)

\* During a cooldown calc_decision only counts wait_time down
CooldownOnlyCounts ==
    \A a \in Entities :
        (DecisionStep(a) /\ agents[a].vehicle.wait_time > 0)
        => /\ agents'[a].vehicle
                = [agents[a].vehicle EXCEPT !.wait_time = agents[a].vehicle.wait_time - DELTA,
                                            !.ang_velocity = agents'[a].vehicle.ang_velocity]
           /\ drawn' = drawn

\* An agent that enters the cooldown of deadlock-breaking wants to stand
CooldownEnteredStill ==
    \A a \in Entities :
        (/\ DecisionStep(a)
         /\ agents[a].vehicle.wait_time <= 0
         /\ drawn' # drawn
         /\ agents'[a].vehicle.wait_time > 0)
        => agents'[a].vehicle.desired_speed = 0

\* C15: while wait_time is positive calc_decision only subtracts delta from
\* it, leaving desired_speed, desired_dir and the itinerary alone and drawing
\* no number, and the desired speed of an agent that enters the cooldown of
\* deadlock-breaking is 0
C15_CooldownKeepsStill == [][CooldownOnlyCounts /\ CooldownEnteredStill]_vars

\* The first half of C15 alone
CooldownFrame == [][CooldownOnlyCounts]_vars

(***************************************************************************)
(* apply called again and again on an intersection whose lanes already     *)
(* carry controls: every lane starts with the same control, left by an     *)
(* earlier policy or, for the lanes that leave the intersection, by the    *)
(* intersection at their other end.  Road r points in direction r - 1, or  *)
(* every road points in direction 0.                                       *)
(***************************************************************************)
EarlierControls ==
    {Always, StopSign,
     Light(from_basic(cycle_size, orange_length, cycle_size + orange_length, 1))}

RepeatFresh ==
    /\ \E n \in 1..MaxRoads :
         \E spread \in BOOLEAN :
           \E open \in [1..n -> BOOLEAN] :
             \E c \in EarlierControls :
               /\ roads = [r \in 1..n |->
                             [dir |-> IF spread THEN (r - 1) % NDirs ELSE 0,
                              incoming |-> [j \in 1..(DrivingIn(r, open[r]) + 1) |->
                                              LaneId(r, j)]]]
               /\ lanes = [l \in {LaneId(r, j) : r \in 1..n, j \in 1..LanesPerRoad} |->
                             LET r == ((l - 1) \div LanesPerRoad) + 1
                                 j == ((l - 1) % LanesPerRoad) + 1
                             IN  [kind |-> IF j = 1 THEN "Walking" ELSE "Driving",
                                  parent |-> r,
                                  control |-> c]]
    /\ seedOffset \in {0, cycle_size - 1}
    /\ lastPolicy = "none"
    /\ panicked = FALSE

InitRepeat == RepeatFresh /\ TurnIdle /\ VehIdle

SpecRepeat == InitRepeat /\ [][NextLight]_vars

\* The lanes with every control as at construction
Reset(ls) == [l \in DOMAIN ls |-> [ls[l] EXCEPT !.control = Always]]

\* The controls a policy gives to a freshly built intersection of the
\* topology of ls, with the offset drawn from the intersection's id
ControlsLeft(policy, ls) ==
    LET fresh == Reset(ls)
        groups == InRoadLanes(roads, fresh)
        arm == Arm(policy, groups)
    IN  IF arm = "skip" THEN fresh
        ELSE IF arm = "stop" THEN SetControl(fresh, GroupLanes(groups), StopSign)
        ELSE IF arm = "lights" THEN SetLights(fresh, groups, 0, seedOffset)
        ELSE LET p == PerpRoad(groups, fresh, roads)
             IN  IF p = -1 THEN fresh
                 ELSE SetControl(fresh, GroupLanes(<<groups[p + 1]>>), StopSign)

\* The relevant lanes carry what the last policy gives a fresh intersection
RelevantAsFresh ==
    lastPolicy # "none" =>
        \A l \in RelevantLanes : lanes[l] = ControlsLeft(lastPolicy, lanes)[l]

\* After NoLights every relevant lane is Always, whatever it carried
NoLightsClears ==
    lastPolicy = "NoLights" => \A l \in RelevantLanes : lanes[l].control = Always

\* A call leaves the other lanes alone, and a second call of the same
\* policy changes nothing
ApplyAgain ==
    /\ \A l \in DOMAIN lanes \ RelevantLanes : lanes'[l] = lanes[l]
    /\ lastPolicy' = lastPolicy => lanes' = lanes

\* C16: the controls apply leaves on the relevant lanes are those the policy
\* gives a fresh intersection of the same topology and id, whatever the
\* lanes carried and however often apply ran before; apply is idempotent;
\* NoLights after any policy leaves every relevant lane Always; and the
\* lanes that are not relevant keep their control.
C16_ApplyForgetsHistory ==
    /\ [](RelevantAsFresh /\ NoLightsClears)
    /\ [][ApplyAgain]_vars

\* NoLights has run on three road-groups whose lanes all carried a light:
\* the relevant lanes are Always and the other lanes still carry the light
C16_Witness ==
    /\ lastPolicy = "NoLights"
    /\ Len(Groups) >= 3
    /\ \A l \in RelevantLanes : lanes[l].control = Always
    /\ \E l \in DOMAIN lanes \ RelevantLanes : lanes[l].control.type = "Light"
    /\ \A l \in DOMAIN lanes \ RelevantLanes : lanes[l].control.type = "Light"

====
